---------------------------- MODULE Spec2Model ----------------------------
(***************************************************************************)
(* A model of dizi's sandboxed project-file layer                          *)
(* (internal/tools/filesystem.go): validatePath, readProjectFile,          *)
(* writeProjectFile, checkStale, editProjectFile and grepProjectFiles.     *)
(*                                                                         *)
(* Strings are sequences of one-character strings, so that the code's      *)
(* string operations (prefix tests, splitting, counting, replacing) are    *)
(* computed character by character.  Two characters stand for more than    *)
(* one byte: "BIG" is a run of maxFileSize+1 bytes of valid text without a *)
(* newline, "BAD" is a byte sequence that is not valid UTF-8.              *)
(***************************************************************************)
EXTENDS Integers, Sequences, FiniteSets, TLC

VARIABLES
    cwd,             \* the process's working directory (os.Getwd)
    disk,            \* the file system: absolute path -> object
    readTimestamps,  \* FilesystemServer.readTimestamps: path -> Unix seconds
    clock,           \* wall-clock time in ticks (TicksPerSec ticks a second)
    sinceRead,       \* history: what happened to a path since its last read
    last,            \* history: the last tool call and its error
    in,              \* the arguments of a call of a pure function
    out,             \* its result
    gitIgnoreCache,  \* FilesystemServer.gitIgnoreCache: root -> patterns
    calls            \* the tool calls in progress, when calls interleave

vars == <<cwd, disk, readTimestamps, clock, sinceRead, last, in, out,
         gitIgnoreCache, calls>>

None == "none"

(***************************************************************************)
(* Sequence helpers                                                        *)
(***************************************************************************)
Min(a, b) == IF a < b THEN a ELSE b

\* all sequences over S of length at most n
SeqsUpTo(S, n) == UNION {[1..k -> S] : k \in 0..n}

\* strings.HasPrefix
HasPrefix(s, prefix) ==
    /\ Len(prefix) <= Len(s)
    /\ SubSeq(s, 1, Len(prefix)) = prefix

\* s[i:] of Go, i counted from 0
From(s, i) == SubSeq(s, i + 1, Len(s))

\* does sub occur in s at the 0-based position i
OccursAt(s, sub, i) ==
    /\ i + Len(sub) <= Len(s)
    /\ SubSeq(s, i + 1, i + Len(sub)) = sub

\* strings.Index: the first position of sub in s, or -1
Index(s, sub) ==
    IF \E i \in 0..Len(s) : OccursAt(s, sub, i)
    THEN CHOOSE i \in 0..Len(s) :
            /\ OccursAt(s, sub, i)
            /\ \A j \in 0..(i - 1) : ~OccursAt(s, sub, j)
    ELSE -1

\* strings.Split(s, sep) for a one-character sep: always at least one field
RECURSIVE Split(_, _)
Split(s, sep) ==
    LET i == Index(s, <<sep>>)
    IN  IF i < 0 THEN <<s>>
        ELSE <<SubSeq(s, 1, i)>> \o Split(From(s, i + 1), sep)

\* strings.Join(fields, sep) for a one-character sep
RECURSIVE Join(_, _)
Join(fields, sep) ==
    IF Len(fields) = 0 THEN <<>>
    ELSE IF Len(fields) = 1 THEN fields[1]
    ELSE fields[1] \o <<sep>> \o Join(Tail(fields), sep)

(***************************************************************************)
(* path/filepath: Clean, IsAbs, Abs (Unix)                                 *)
(***************************************************************************)
Separator == "/"
Dot == <<".">>
DotDot == <<".", ".">>

IsAbs(p) == Len(p) > 0 /\ p[1] = Separator

\* The elements Clean keeps, left to right: empty elements and "." are
\* dropped, ".." removes the element before it, is dropped at the root of
\* a rooted path and is kept at the front of a relative one.
RECURSIVE CleanElems(_, _, _)
CleanElems(elems, rooted, acc) ==
    IF Len(elems) = 0 THEN acc
    ELSE LET e == Head(elems)
             rest == Tail(elems)
         IN  IF e = <<>> \/ e = Dot THEN CleanElems(rest, rooted, acc)
             ELSE IF e = DotDot
                  THEN IF Len(acc) > 0 /\ acc[Len(acc)] # DotDot
                       THEN CleanElems(rest, rooted, SubSeq(acc, 1, Len(acc) - 1))
                       ELSE IF rooted THEN CleanElems(rest, rooted, acc)
                       ELSE CleanElems(rest, rooted, Append(acc, e))
                  ELSE CleanElems(rest, rooted, Append(acc, e))

\* the end of Clean: the kept elements joined, "/" in front of a rooted
\* path, "." for an empty relative one
cleanJoin(rooted, kept) ==
    IF rooted THEN <<Separator>> \o Join(kept, Separator)
    ELSE IF Len(kept) = 0 THEN Dot
    ELSE Join(kept, Separator)

\* filepath.Clean
Clean(p) ==
    IF Len(p) = 0 THEN Dot
    ELSE cleanJoin(IsAbs(p), CleanElems(Split(p, Separator), IsAbs(p), <<>>))

\* filepath.Abs: a relative path is joined to the working directory
Abs(wd, p) ==
    Clean(IF IsAbs(p) THEN p
          ELSE IF Len(p) = 0 THEN wd
          ELSE wd \o <<Separator>> \o p)

(***************************************************************************)
(* validatePath                                                            *)
(***************************************************************************)
ErrSandbox == "access denied: path is outside project directory"

\* the containment test of validatePath without the trailing separators
InsideRoot_NoSeparator(absPath, rootAbs) ==
    HasPrefix(absPath, rootAbs) \/ absPath = rootAbs

\* strings.HasPrefix(absPath+sep, rootAbs+sep) || absPath == rootAbs
InsideRoot(absPath, rootAbs) ==
    \/ HasPrefix(absPath \o <<Separator>>, rootAbs \o <<Separator>>)
    \/ absPath = rootAbs

\* validatePath without the containment test
validated_Unchecked(absPath, rootAbs) ==
    [ok |-> TRUE, path |-> absPath, err |-> ""]

\* lines 944-950: the verdict on the two absolute paths
validated(absPath, rootAbs) ==
    IF ~InsideRoot(absPath, rootAbs)
    THEN [ok |-> FALSE, path |-> <<>>, err |-> ErrSandbox]
    ELSE [ok |-> TRUE, path |-> absPath, err |-> ""]

validatePath(rootDirectory, wd, path) ==
    validated(Abs(wd, Clean(path)), Abs(wd, rootDirectory))

(***************************************************************************)
(* The file system and the clock                                           *)
(***************************************************************************)
\* ticks in one second: modification times have sub-second resolution on
\* disk, the code keeps stat.ModTime().Unix()
TicksPerSec == 2
\* the clock stops advancing here
MaxClock == 3

\* time.Time.Unix(): whole seconds
Unix(t) == t \div TicksPerSec

maxFileSize == 262144

RootDirectory == <<"/", "r">>
PathF == <<"/", "r", "/", "f">>
PathL == <<"/", "r", "/", "l">>
PathO == <<"/", "o">>

InsidePaths == {PathF, PathL}
DiskPaths == {RootDirectory, PathF, PathL, PathO}

Big == <<"BIG">>
Bad == <<"BAD">>
Secret == <<"s">>

NoObj == [kind |-> "none", content |-> <<>>, mtime |-> 0, target |-> <<>>]
DirObj == [kind |-> "dir", content |-> <<>>, mtime |-> 0, target |-> <<>>]
FileObj(c, t) == [kind |-> "file", content |-> c, mtime |-> t, target |-> <<>>]
LinkObj(to) == [kind |-> "link", content |-> <<>>, mtime |-> 0, target |-> to]

\* the bytes of a string
RECURSIVE Size(_)
Size(c) ==
    IF Len(c) = 0 THEN 0
    ELSE (IF Head(c) = "BIG" THEN maxFileSize + 1 ELSE 1) + Size(Tail(c))

\* utf8.Valid
Utf8Valid(c) == \A i \in 1..Len(c) : c[i] # "BAD"

Lookup(d, p) == IF p \in DOMAIN d THEN d[p] ELSE NoObj

\* the path a system call acts on: a symbolic link is followed
Follow(d, p) == IF Lookup(d, p).kind = "link" THEN d[p].target ELSE p

\* os.Stat: the object the path leads to, kind "none" for ENOENT
Stat(d, p) == Lookup(d, Follow(d, p))

\* os.WriteFile that appends to an existing file instead of truncating it
WriteFile_Append(d, p, c, now) ==
    (Follow(d, p) :> FileObj(Stat(d, p).content \o c, now)) @@ d

\* os.WriteFile: creates or truncates the file the path leads to
WriteFile(d, p, c, now) == (Follow(d, p) :> FileObj(c, now)) @@ d

(***************************************************************************)
(* checkStale                                                              *)
(***************************************************************************)
ErrNotExist == "file does not exist"
ErrNotTracked == "file has not been read yet"
ErrStale == "file has been modified since last read"

\* the verdict with >= for > : a file untouched since its read is stale
staleVerdict_GreaterEqual(stat, ts, path) ==
    IF path \notin DOMAIN ts THEN ErrNotTracked
    ELSE IF Unix(stat.mtime) >= ts[path] THEN ErrStale
    ELSE ""

\* the verdict without the test for a missing entry
staleVerdict_Untracked(stat, ts, path) ==
    IF path \notin DOMAIN ts THEN ""
    ELSE IF Unix(stat.mtime) > ts[path] THEN ErrStale
    ELSE ""

\* lines 1388-1397: the verdict once the file is known to exist
staleVerdict(stat, ts, path) ==
    IF path \notin DOMAIN ts THEN ErrNotTracked
    ELSE IF Unix(stat.mtime) > ts[path] THEN ErrStale
    ELSE ""

checkStale(d, ts, path, allowNotFound) ==
    IF Stat(d, path).kind = "none"
    THEN IF allowNotFound THEN "" ELSE ErrNotExist
    ELSE staleVerdict(Stat(d, path), ts, path)

(***************************************************************************)
(* readProjectFile                                                         *)
(***************************************************************************)
ErrTooLarge == "file is too large to read"
ErrNotRegular == "cannot read non-regular file"
ErrNotUTF8 == "cannot read file, because it contains invalid UTF-8 characters"
Panic == "panic: runtime error: slice bounds out of range"

NewLine == "\n"

\* lines[lo:hi] of Go: a run-time panic unless 0 <= lo <= hi <= len(lines)
slice(lines, lo, hi) ==
    IF 0 <= lo /\ lo <= hi /\ hi <= Len(lines)
    THEN [err |-> "", content |-> Join(SubSeq(lines, lo + 1, hi), NewLine)]
    ELSE [err |-> Panic, content |-> <<>>]

\* lines 1333-1342: the slice of the split content
sliceOf(lines, lineOffset, count) ==
    IF lineOffset >= Len(lines) THEN [err |-> "", content |-> <<>>]
    ELSE slice(lines, lineOffset,
               IF count > 0 /\ lineOffset + count < Len(lines)
               THEN lineOffset + count
               ELSE Len(lines))

\* lines 1328-1345: the line offset and count applied to the content
sliceLines(contentStr, lineOffset, count) ==
    IF lineOffset > 0 \/ count > 0
    THEN sliceOf(Split(contentStr, NewLine), lineOffset, count)
    ELSE [err |-> "", content |-> contentStr]

\* the read that returns the slice without recording the timestamp
readTracked_NoStamp(ts, path, stat, sl) ==
    [err |-> sl.err, content |-> sl.content, ts |-> ts]

\* lines 1325-1345: the timestamp is recorded, then the slice is returned
readTracked(ts, path, stat, sl) ==
    [err |-> sl.err, content |-> sl.content,
     ts |-> (path :> Unix(stat.mtime)) @@ ts]

\* readProjectFile recording the timestamp right after os.Stat, before the
\* checks on the file
readStat_StampFirst(ts, path, stat, lineOffset, count) ==
    IF stat.kind = "none" THEN [err |-> ErrNotExist, content |-> <<>>, ts |-> ts]
    ELSE IF Size(stat.content) > maxFileSize
         THEN [err |-> ErrTooLarge, content |-> <<>>,
               ts |-> (path :> Unix(stat.mtime)) @@ ts]
    ELSE IF stat.kind # "file"
         THEN [err |-> ErrNotRegular, content |-> <<>>,
               ts |-> (path :> Unix(stat.mtime)) @@ ts]
    ELSE IF ~Utf8Valid(stat.content)
         THEN [err |-> ErrNotUTF8, content |-> <<>>,
               ts |-> (path :> Unix(stat.mtime)) @@ ts]
    ELSE readTracked(ts, path, stat, sliceLines(stat.content, lineOffset, count))

\* lines 1301-1345: the checks on the file the valid path leads to
readStat(ts, path, stat, lineOffset, count) ==
    IF stat.kind = "none" THEN [err |-> ErrNotExist, content |-> <<>>, ts |-> ts]
    ELSE IF Size(stat.content) > maxFileSize
         THEN [err |-> ErrTooLarge, content |-> <<>>, ts |-> ts]
    ELSE IF stat.kind # "file"
         THEN [err |-> ErrNotRegular, content |-> <<>>, ts |-> ts]
    ELSE IF ~Utf8Valid(stat.content)
         THEN [err |-> ErrNotUTF8, content |-> <<>>, ts |-> ts]
    ELSE readTracked(ts, path, stat, sliceLines(stat.content, lineOffset, count))

\* lines 1296-1345: after validatePath
readValidated(d, ts, v, lineOffset, count) ==
    IF ~v.ok THEN [err |-> v.err, content |-> <<>>, ts |-> ts]
    ELSE readStat(ts, v.path, Stat(d, v.path), lineOffset, count)

readProjectFile(d, ts, wd, path, lineOffset, count) ==
    readValidated(d, ts, validatePath(RootDirectory, wd, path), lineOffset, count)

(***************************************************************************)
(* writeProjectFile                                                        *)
(***************************************************************************)
ErrWrite == "failed to write file"

\* the end of write and edit without the update of the timestamp
written_NoStamp(d2, ts, path) == [err |-> "", disk |-> d2, ts |-> ts]

\* the end of write and edit with a table that keeps the written path only
written_Single(d2, ts, path) ==
    [err |-> "", disk |-> d2, ts |-> (path :> Unix(Stat(d2, path).mtime))]

\* lines 1370-1375 and 1435-1440: the timestamp of the file just written
written(d2, ts, path) ==
    [err |-> "", disk |-> d2, ts |-> (path :> Unix(Stat(d2, path).mtime)) @@ ts]

\* lines 1356-1375: after validatePath
writeValidated(d, ts, now, v, content) ==
    IF ~v.ok THEN [err |-> v.err, disk |-> d, ts |-> ts]
    ELSE IF checkStale(d, ts, v.path, TRUE) # ""
         THEN [err |-> checkStale(d, ts, v.path, TRUE), disk |-> d, ts |-> ts]
    ELSE IF Stat(d, v.path).kind = "dir"
         THEN [err |-> ErrWrite, disk |-> d, ts |-> ts]
    ELSE written(WriteFile(d, v.path, content, now), ts, v.path)

writeProjectFile(d, ts, wd, now, path, content) ==
    writeValidated(d, ts, now, validatePath(RootDirectory, wd, path), content)

(***************************************************************************)
(* editProjectFile                                                         *)
(***************************************************************************)
ErrNotFound == "the original substring was not found in the file"
ErrAmbiguous == "the substring was found more than once"
ErrRead == "failed to read file"

\* strings.Count: the number of non-overlapping instances of substr in s,
\* and the number of characters plus one for an empty substr
RECURSIVE Count(_, _)
Count(s, substr) ==
    IF Len(substr) = 0 THEN Len(s) + 1
    ELSE IF Index(s, substr) < 0 THEN 0
    ELSE 1 + Count(From(s, Index(s, substr) + Len(substr)), substr)

\* the replacement at position i of s
replaceAt(s, i, old, new) ==
    IF i < 0 THEN s
    ELSE SubSeq(s, 1, i) \o new \o From(s, i + Len(old))

\* strings.Replace(s, old, new, 1): the first instance of old replaced; an
\* empty old matches at the beginning of the string
ReplaceFirst(s, old, new) == replaceAt(s, Index(s, old), old, new)

\* lines 1417-1429: the new content, or why there is none
editContent(contentStr, matches, oldString, newString) ==
    IF matches = 0 THEN [err |-> ErrNotFound, content |-> contentStr]
    ELSE IF matches > 1 THEN [err |-> ErrAmbiguous, content |-> contentStr]
    ELSE [err |-> "", content |-> ReplaceFirst(contentStr, oldString, newString)]

\* lines 1417-1429
editString(contentStr, oldString, newString) ==
    editContent(contentStr, Count(contentStr, oldString), oldString, newString)

\* the write-back done even when the count of matches is not one
editWrite_WriteBack(d, ts, now, path, ed) ==
    IF ed.err # ""
    THEN [err |-> ed.err, disk |-> WriteFile(d, path, ed.content, now), ts |-> ts]
    ELSE written(WriteFile(d, path, ed.content, now), ts, path)

\* lines 1431-1440: the write-back of the edited content
editWrite(d, ts, now, path, ed) ==
    IF ed.err # "" THEN [err |-> ed.err, disk |-> d, ts |-> ts]
    ELSE written(WriteFile(d, path, ed.content, now), ts, path)

\* lines 1407-1440: after validatePath
editValidated(d, ts, now, v, oldString, newString) ==
    IF ~v.ok THEN [err |-> v.err, disk |-> d, ts |-> ts]
    ELSE IF checkStale(d, ts, v.path, FALSE) # ""
         THEN [err |-> checkStale(d, ts, v.path, FALSE), disk |-> d, ts |-> ts]
    ELSE IF Stat(d, v.path).kind # "file"
         THEN [err |-> ErrRead, disk |-> d, ts |-> ts]
    ELSE editWrite(d, ts, now, v.path,
                   editString(Stat(d, v.path).content, oldString, newString))

editProjectFile(d, ts, wd, now, path, oldString, newString) ==
    editValidated(d, ts, now, validatePath(RootDirectory, wd, path),
                  oldString, newString)

(***************************************************************************)
(* handleReadProjectFile: the optional arguments                           *)
(***************************************************************************)
\* lines 996-1004: arguments is a map; line_offset defaults to 0 and count
\* to -1, "all lines"
argOr(arguments, name, default) ==
    IF name \in DOMAIN arguments THEN arguments[name] ELSE default

handleReadProjectFile(d, ts, wd, path, arguments) ==
    readProjectFile(d, ts, wd, path,
                    argOr(arguments, "line_offset", 0),
                    argOr(arguments, "count", 0 - 1))

(***************************************************************************)
(* grepProjectFiles                                                        *)
(***************************************************************************)
\* strings.ToLower on the letters of the model
ToLower(s) ==
    [i \in 1..Len(s) |->
        IF s[i] = "T" THEN "t"
        ELSE IF s[i] = "O" THEN "o"
        ELSE IF s[i] = "D" THEN "d"
        ELSE s[i]]

\* strings.Contains
Contains(s, substr) == Index(s, substr) >= 0

\* the flag group put before the pattern at line 1518, as one character
FoldFlag == "(?i)"

\* regexp.Compile on the expressions of the model: letters and other plain
\* characters, the dot, and the opening parenthesis, which is never closed
\* here and makes the expression invalid
regexpCompile(expr) ==
    IF HasPrefix(expr, <<FoldFlag>>)
    THEN [ok |-> \A i \in 2..Len(expr) : expr[i] # "(",
          fold |-> TRUE, prog |-> Tail(expr)]
    ELSE [ok |-> \A i \in 1..Len(expr) : expr[i] # "(",
          fold |-> FALSE, prog |-> expr]

\* one character of the line against one of the expression
matchesChar(re, c, x) ==
    \/ c = "."
    \/ c = x
    \/ re.fold /\ ToLower(<<c>>) = ToLower(<<x>>)

\* Regexp.MatchString: the expression matches somewhere in the line
MatchString(re, line) ==
    \E i \in 0..(Len(line) - Len(re.prog)) :
        \A k \in 1..Len(re.prog) : matchesChar(re, re.prog[k], line[i + k])

\* lines 1516-1526: the expression compiled for the search
compiled(pattern, caseSensitive) ==
    IF caseSensitive THEN regexpCompile(pattern)
    ELSE regexpCompile(<<FoldFlag>> \o pattern)

\* lines 1595-1600: the search of the pattern as a substring
literalMatches(line, pattern, caseSensitive) ==
    IF caseSensitive THEN Contains(line, pattern)
    ELSE Contains(ToLower(line), ToLower(pattern))

\* lineMatches without the substring search: a pattern that does not
\* compile matches nothing
lineMatches_NoFallback(line, pattern, caseSensitive) ==
    /\ compiled(pattern, caseSensitive).ok
    /\ MatchString(compiled(pattern, caseSensitive), line)

\* lineMatches: the compiled expression when there is one (ctx.regex is nil
\* when the pattern did not compile), the substring search otherwise
lineMatches(line, pattern, caseSensitive) ==
    IF compiled(pattern, caseSensitive).ok
    THEN MatchString(compiled(pattern, caseSensitive), line)
    ELSE literalMatches(line, pattern, caseSensitive)

\* lines 1571-1574
truncated(line) ==
    IF Len(line) > 200 THEN SubSeq(line, 1, 200) \o <<".", ".", ".">> ELSE line

\* lines 1565-1582: the loop over the lines from index lineNum on; acc holds
\* the file's results and, as history, the number of them at each line test
RECURSIVE searchLines(_, _, _, _, _, _, _)
searchLines(lines, lineNum, relPath, pattern, caseSensitive, maxResults, acc) ==
    IF lineNum >= Len(lines) \/ Len(acc.results) >= maxResults THEN acc
    ELSE searchLines(lines, lineNum + 1, relPath, pattern, caseSensitive, maxResults,
            [results |->
                IF lineMatches(lines[lineNum + 1], pattern, caseSensitive)
                THEN Append(acc.results,
                            [path |-> relPath, line |-> lineNum + 1,
                             content |-> truncated(lines[lineNum + 1])])
                ELSE acc.results,
             tested |-> Append(acc.tested, Len(acc.results))])

\* searchInFile: stat is what os.ReadFile finds at the path
searchInFile(stat, relPath, pattern, caseSensitive, maxResults) ==
    IF stat.kind # "file" \/ ~Utf8Valid(stat.content)
    THEN [results |-> <<>>, tested |-> <<>>]
    ELSE searchLines(Split(stat.content, NewLine), 0, relPath, pattern,
                     caseSensitive, maxResults,
                     [results |-> <<>>, tested |-> <<>>])

(***************************************************************************)
(* Glob patterns (github.com/gobwas/glob, compiled without separators)     *)
(***************************************************************************)
\* strings.HasSuffix
HasSuffix(s, suffix) ==
    /\ Len(suffix) <= Len(s)
    /\ SubSeq(s, Len(s) - Len(suffix) + 1, Len(s)) = suffix

\* Match for a pattern without braces: "*" and "**" stand for any run of
\* characters, the separator included, and "?" for any one character
RECURSIVE Wild(_, _)
Wild(p, s) ==
    IF Len(p) = 0 THEN Len(s) = 0
    ELSE IF Head(p) = "*"
         THEN IF Len(p) > 1 /\ p[2] = "*" THEN Wild(Tail(p), s)
              ELSE Wild(Tail(p), s) \/ (Len(s) > 0 /\ Wild(p, Tail(s)))
    ELSE /\ Len(s) > 0
         /\ Head(p) = "?" \/ Head(p) = Head(s)
         /\ Wild(Tail(p), Tail(s))

\* the patterns a group {a,b} opening at i and closing at j stands for
altsAt(p, i, j) ==
    { SubSeq(p, 1, i) \o Split(SubSeq(p, i + 2, j), ",")[k] \o From(p, j + 1) :
        k \in 1..Len(Split(SubSeq(p, i + 2, j), ",")) }

\* the alternatives of a pattern with at most one group
Alternatives(p) ==
    IF Index(p, <<"{">>) < 0 \/ Index(p, <<"}">>) < Index(p, <<"{">>) THEN {p}
    ELSE altsAt(p, Index(p, <<"{">>), Index(p, <<"}">>))

\* glob.Compile(pattern).Match(s)
GlobMatch(pattern, s) == \E alt \in Alternatives(pattern) : Wild(alt, s)

(***************************************************************************)
(* The ignore file                                                         *)
(***************************************************************************)
StarStar == <<"*", "*">>
StarStarSlash == <<"*", "*", "/">>

\* gitignoreToGlob naming the directory alone, not what is beneath it
gitignoreToGlob_DirOnly(pattern) ==
    IF HasPrefix(pattern, <<"!">>) THEN <<>>
    ELSE IF HasPrefix(pattern, <<"/">>) THEN Tail(pattern)
    ELSE IF Contains(pattern, StarStar) THEN pattern
    ELSE <<"{">> \o pattern \o <<",">> \o StarStarSlash \o pattern \o <<"}">>

\* gitignoreToGlob testing for ** before it tests for the final separator
gitignoreToGlob_StarFirst(pattern) ==
    IF HasPrefix(pattern, <<"!">>) THEN <<>>
    ELSE IF HasPrefix(pattern, <<"/">>)
         THEN IF HasSuffix(Tail(pattern), <<"/">>) THEN Tail(pattern) \o StarStar
              ELSE Tail(pattern)
    ELSE IF Contains(pattern, StarStar) THEN pattern
    ELSE IF HasSuffix(pattern, <<"/">>)
         THEN <<"{">> \o pattern \o StarStar \o <<",">>
                  \o StarStarSlash \o pattern \o StarStar \o <<"}">>
    ELSE <<"{">> \o pattern \o <<",">> \o StarStarSlash \o pattern \o <<"}">>

\* gitignoreToGlob
gitignoreToGlob(pattern) ==
    IF HasPrefix(pattern, <<"!">>) THEN <<>>
    ELSE IF HasPrefix(pattern, <<"/">>)
         THEN IF HasSuffix(Tail(pattern), <<"/">>) THEN Tail(pattern) \o StarStar
              ELSE Tail(pattern)
    ELSE IF HasSuffix(pattern, <<"/">>)
         THEN <<"{">> \o pattern \o StarStar \o <<",">>
                  \o StarStarSlash \o pattern \o StarStar \o <<"}">>
    ELSE IF Contains(pattern, StarStar) THEN pattern
    ELSE <<"{">> \o pattern \o <<",">> \o StarStarSlash \o pattern \o <<"}">>

Space == {" ", "\t", "\r"}

\* strings.TrimSpace
RECURSIVE TrimSpace(_)
TrimSpace(s) ==
    IF Len(s) = 0 THEN s
    ELSE IF Head(s) \in Space THEN TrimSpace(Tail(s))
    ELSE IF s[Len(s)] \in Space THEN TrimSpace(SubSeq(s, 1, Len(s) - 1))
    ELSE s

\* bufio.Scanner: the lines of the file; an empty last line is no line
ScanLines(content) ==
    IF Len(content) = 0 THEN <<>>
    ELSE IF content[Len(content)] = NewLine
         THEN Split(SubSeq(content, 1, Len(content) - 1), NewLine)
    ELSE Split(content, NewLine)

\* lines 1242-1256: the pattern a line contributes, if any
patternOf(line) ==
    IF Len(line) = 0 \/ HasPrefix(line, <<"#">>) \/ Len(gitignoreToGlob(line)) = 0
    THEN <<>>
    ELSE <<gitignoreToGlob(line)>>

\* lines 1241-1257: the loop over the lines
RECURSIVE compileLines(_)
compileLines(lines) ==
    IF Len(lines) = 0 THEN <<>>
    ELSE patternOf(TrimSpace(Head(lines))) \o compileLines(Tail(lines))

GitignorePath == RootDirectory \o <<"/", ".", "g", "i", "t", "i", "g", "n", "o", "r", "e">>

\* lines 1259-1261: the patterns are cached and returned
cached(patterns, cache) ==
    [patterns |-> patterns, cache |-> (RootDirectory :> patterns) @@ cache]

\* loadGitignorePatterns: the patterns and the cache after the call
loadGitignorePatterns(d, cache) ==
    IF RootDirectory \in DOMAIN cache
    THEN [patterns |-> cache[RootDirectory], cache |-> cache]
    ELSE IF Stat(d, GitignorePath).kind = "none"
         THEN [patterns |-> <<>>, cache |-> cache]
    ELSE IF Stat(d, GitignorePath).kind # "file" THEN cached(<<>>, cache)
    ELSE cached(compileLines(ScanLines(Stat(d, GitignorePath).content)), cache)

\* pattern.Match(relPath) for one of the patterns
ignored(relPath, patterns) ==
    \E i \in 1..Len(patterns) : GlobMatch(patterns[i], relPath)

(***************************************************************************)
(* ListProjectFiles                                                        *)
(***************************************************************************)
\* matchesGlobPattern without the second matcher for a "**/" pattern
matchesGlobPattern_NoAlt(relPath, globPattern) ==
    IF ~Contains(globPattern, <<"/">>)
    THEN GlobMatch(globPattern, relPath) /\ ~Contains(relPath, <<"/">>)
    ELSE GlobMatch(globPattern, relPath)

\* matchesGlobPattern: the matcher, the matcher of the pattern without its
\* "**/" prefix, and the root-level rule for a pattern without separator
matchesGlobPattern(relPath, globPattern) ==
    IF ~Contains(globPattern, StarStarSlash) /\ ~Contains(globPattern, <<"/">>)
    THEN GlobMatch(globPattern, relPath) /\ ~Contains(relPath, <<"/">>)
    ELSE \/ GlobMatch(globPattern, relPath)
         \/ /\ HasPrefix(globPattern, StarStarSlash)
            /\ GlobMatch(From(globPattern, 3), relPath)

shouldIncludeFile(relPath, globPattern, ignorePatterns, includeIgnored) ==
    /\ Len(globPattern) > 0 => matchesGlobPattern(relPath, globPattern)
    /\ ~includeIgnored => ~ignored(relPath, ignorePatterns)

\* getIgnorePatterns
getIgnorePatterns(d, cache, includeIgnored) ==
    IF includeIgnored THEN [patterns |-> <<>>, cache |-> cache]
    ELSE loadGitignorePatterns(d, cache)

\* filepath.Rel(rootAbs, path) for a path under the root
Rel(rootAbs, path) == From(path, Len(rootAbs) + 1)

\* the files of the model's trees, in the order in which filepath.Walk
\* visits them (names sorted within each directory)
WalkOrder ==
    << GitignorePath,
       RootDirectory \o <<"/", "a", ".", "t", "x", "t">>,
       RootDirectory \o <<"/", "b", "u", "i", "l", "d", "/", "o", "u", "t", ".", "b", "i", "n">>,
       PathF,
       PathL,
       RootDirectory \o <<"/", "m", "a", "i", "n", ".", "g", "o">>,
       RootDirectory \o <<"/", "m", "a", "i", "n", "_", "t", "e", "s", "t", ".", "g", "o">>,
       RootDirectory \o <<"/", "s", "r", "c", "/", "u", "t", "i", "l", "s", ".", "g", "o">> >>

\* lines 1123-1137: the walk
RECURSIVE walkList(_, _, _, _, _)
walkList(d, entries, globPattern, ignorePatterns, includeIgnored) ==
    IF Len(entries) = 0 THEN <<>>
    ELSE (IF /\ Lookup(d, Head(entries)).kind \notin {"none", "dir"}
             /\ shouldIncludeFile(Rel(RootDirectory, Head(entries)), globPattern,
                                  ignorePatterns, includeIgnored)
          THEN <<Rel(RootDirectory, Head(entries))>>
          ELSE <<>>)
         \o walkList(d, Tail(entries), globPattern, ignorePatterns, includeIgnored)

listWith(d, globPattern, includeIgnored, loaded) ==
    [files |-> walkList(d, WalkOrder, globPattern, loaded.patterns, includeIgnored),
     cache |-> loaded.cache]

\* ListProjectFiles: the files and the cache after the call
ListProjectFiles(d, cache, globPattern, includeIgnored) ==
    listWith(d, globPattern, includeIgnored,
             getIgnorePatterns(d, cache, includeIgnored))

(***************************************************************************)
(* grepProjectFiles: the walk                                              *)
(***************************************************************************)
\* shouldSearchFile without the loop over the ignore patterns
shouldSearchFile_NeverIgnore(relPath, globPattern, ignorePatterns) ==
    Len(globPattern) > 0 => GlobMatch(globPattern, relPath)

\* shouldSearchFile
shouldSearchFile(relPath, globPattern, ignorePatterns) ==
    /\ Len(globPattern) > 0 => GlobMatch(globPattern, relPath)
    /\ Len(globPattern) = 0 => ~ignored(relPath, ignorePatterns)

\* the results of one file joined to those collected before it; the history
\* counts the results of the whole call at each line test and names the
\* files searched
collect(acc, relPath, found) ==
    [results |-> acc.results \o found.results,
     tested |-> acc.tested \o
                [i \in 1..Len(found.tested) |-> Len(acc.results) + found.tested[i]],
     searched |-> Append(acc.searched, relPath)]

\* lines 1471-1486: filepath.Walk calls the function on the entries in
\* lexical order
RECURSIVE walkGrep(_, _, _, _)
walkGrep(d, entries, ctx, acc) ==
    IF Len(entries) = 0 THEN acc
    ELSE walkGrep(d, Tail(entries), ctx,
            IF \/ Lookup(d, Head(entries)).kind \in {"none", "dir"}
               \/ Len(acc.results) >= ctx.maxResults
               \/ ~shouldSearchFile(Rel(RootDirectory, Head(entries)),
                                    ctx.globPattern, ctx.ignorePatterns)
            THEN acc
            ELSE collect(acc, Rel(RootDirectory, Head(entries)),
                    searchInFile(Stat(d, Head(entries)),
                                 Rel(RootDirectory, Head(entries)),
                                 ctx.pattern, ctx.caseSensitive, ctx.maxResults)))

\* lines 1530-1532: the ignore patterns are loaded when there is no glob
setupGrepSearch(d, cache, globPattern) ==
    IF Len(globPattern) = 0 THEN loadGitignorePatterns(d, cache)
    ELSE [patterns |-> <<>>, cache |-> cache]

grepDone(acc, cache) ==
    [results |-> acc.results, tested |-> acc.tested, searched |-> acc.searched,
     cache |-> cache]

grepWith(d, pattern, globPattern, caseSensitive, maxResults, loaded) ==
    grepDone(walkGrep(d, WalkOrder,
                      [pattern |-> pattern, globPattern |-> globPattern,
                       caseSensitive |-> caseSensitive, maxResults |-> maxResults,
                       ignorePatterns |-> loaded.patterns],
                      [results |-> <<>>, tested |-> <<>>, searched |-> <<>>]),
             loaded.cache)

\* grepProjectFiles: the results, the history and the cache after the call
grepProjectFiles(d, cache, pattern, globPattern, caseSensitive, maxResults) ==
    grepWith(d, pattern, globPattern, caseSensitive, maxResults,
             setupGrepSearch(d, cache, globPattern))

(***************************************************************************)
(* The layer as a state machine: tool calls, external actors, the clock    *)
(***************************************************************************)
Traversal == <<"/", "r", "/", ".", ".", "/", "o">>

\* the path arguments of the tool calls
PathArgs ==
    { <<"f">>,            \* relative
      PathF, PathL,       \* absolute, under the root
      RootDirectory,      \* the root itself
      PathO,              \* absolute, elsewhere
      Traversal }         \* out of the root through ".."

\* the contents the tool calls write
Texts == { <<"a">>, Big }
\* the contents external actors write
ExtTexts == { <<"x">>, Bad }
\* (old_string, new_string) of the edit calls
EditPairs == { <<(<<"a">>), (<<"b">>)>>, <<(<<"x">>), (<<"a">>)>> }

\* the record of a step: the call, its arguments and error, the file it
\* acted on (links followed) and what the history said of its path
NoCall == [op |-> None, err |-> "", path |-> <<>>, content |-> <<>>,
           file |-> <<>>, mark |-> ""]
ExtStep == [NoCall EXCEPT !.op = "ext"]

\* the path of a tool call after validation, <<>> when rejected
ValidPath(path) == validatePath(RootDirectory, cwd, path).path

\* the file a successful call on the valid path vp acts on
actsOn(err, vp) == IF err = "" THEN Follow(disk, vp) ELSE <<>>

\* history kept per path: "unread" until this instance reads it, "clean"
\* after a successful read, "modified" when an external actor has written
\* the file since; a write or edit call uses the mark up
markOf(vp) == IF vp \in DiskPaths THEN sinceRead[vp] ELSE ""

consumed(vp) ==
    IF vp \in DiskPaths /\ sinceRead[vp] = "modified"
    THEN [sinceRead EXCEPT ![vp] = "clean"]
    ELSE sinceRead

\* no pure function is being probed
NoProbe == /\ in = <<>>
           /\ out = <<>>

\* the tree at start: the root, a file outside of it, and the given object
\* at /r/f
StartDisk(f) ==
    [p \in DiskPaths |->
        IF p = RootDirectory THEN DirObj
        ELSE IF p = PathO THEN FileObj(Secret, 0)
        ELSE IF p = PathF THEN f
        ELSE NoObj]

\* the server as cmd/dizi/main.go starts it without -fs-root: the root is
\* the working directory
InitServer ==
    /\ cwd = RootDirectory
    /\ readTimestamps = <<>>
    /\ clock = 0
    /\ sinceRead = [p \in DiskPaths |-> "unread"]
    /\ last = NoCall
    /\ gitIgnoreCache = <<>>
    /\ calls = <<>>

\* the effect of a read call that returned r for the valid path vp
ReadReturns(path, vp, r) ==
    /\ readTimestamps' = r.ts
    /\ last' = [op |-> "read", err |-> r.err, path |-> path, content |-> <<>>,
                file |-> actsOn(r.err, vp), mark |-> markOf(vp)]
    /\ sinceRead' = IF r.err = "" THEN [sinceRead EXCEPT ![vp] = "clean"]
                    ELSE sinceRead
    /\ UNCHANGED <<cwd, disk, clock, in, out, gitIgnoreCache, calls>>

Read(path, lineOffset, count) ==
    ReadReturns(path, ValidPath(path),
                readProjectFile(disk, readTimestamps, cwd, path, lineOffset, count))

\* the effect of a write or edit call that returned r
ChangeReturns(op, path, content, vp, r) ==
    /\ disk' = r.disk
    /\ readTimestamps' = r.ts
    /\ last' = [op |-> op, err |-> r.err, path |-> path, content |-> content,
                file |-> actsOn(r.err, vp), mark |-> markOf(vp)]
    /\ sinceRead' = consumed(vp)
    /\ UNCHANGED <<cwd, clock, in, out, gitIgnoreCache, calls>>

Write(path, content) ==
    ChangeReturns("write", path, content, ValidPath(path),
                  writeProjectFile(disk, readTimestamps, cwd, clock, path, content))

Edit(path, oldString, newString) ==
    ChangeReturns("edit", path, <<>>, ValidPath(path),
                  editProjectFile(disk, readTimestamps, cwd, clock, path,
                                  oldString, newString))

\* an external actor creates or overwrites a regular file under the root
ExtWrite(p, content) ==
    /\ disk[p].kind \in {"none", "file"}
    /\ disk' = [disk EXCEPT ![p] = FileObj(content, clock)]
    /\ sinceRead' = IF disk[p].kind = "file" /\ sinceRead[p] # "unread"
                    THEN [sinceRead EXCEPT ![p] = "modified"]
                    ELSE sinceRead
    /\ last' = ExtStep
    /\ UNCHANGED <<cwd, readTimestamps, clock, in, out, gitIgnoreCache, calls>>

\* an external actor removes a file or a link under the root
ExtDelete(p) ==
    /\ disk[p].kind # "none"
    /\ disk' = [disk EXCEPT ![p] = NoObj]
    /\ sinceRead' = IF sinceRead[p] = "modified"
                    THEN [sinceRead EXCEPT ![p] = "clean"]
                    ELSE sinceRead
    /\ last' = ExtStep
    /\ UNCHANGED <<cwd, readTimestamps, clock, in, out, gitIgnoreCache, calls>>

\* an external actor links a name under the root to a file outside of it
ExtSymlink(p) ==
    /\ disk[p].kind = "none"
    /\ disk' = [disk EXCEPT ![p] = LinkObj(PathO)]
    /\ last' = ExtStep
    /\ UNCHANGED <<cwd, readTimestamps, clock, sinceRead, in, out, gitIgnoreCache, calls>>

Tick ==
    /\ clock < MaxClock
    /\ clock' = clock + 1
    /\ UNCHANGED <<cwd, disk, readTimestamps, sinceRead, last, in, out, gitIgnoreCache, calls>>

(***************************************************************************)
(* Spec: the staleness protocol on one file, with time passing and an      *)
(* external editor.                                                        *)
(***************************************************************************)
StalePaths == { <<"f">>, PathF, PathO }

Init ==
    /\ InitServer
    /\ NoProbe
    /\ \E withFile \in BOOLEAN :
          disk = StartDisk(IF withFile THEN FileObj(<<"a">>, 0) ELSE NoObj)

Next ==
    \/ \E p \in StalePaths : Read(p, 0, -1)
    \/ \E p \in StalePaths : Write(p, <<"a">>)
    \/ \E p \in StalePaths, e \in EditPairs : Edit(p, e[1], e[2])
    \/ ExtWrite(PathF, <<"x">>)
    \/ ExtDelete(PathF)
    \/ Tick

Spec == Init /\ [][Next]_vars

ToolOps == {"read", "write", "edit"}

\* C3: when an external actor has modified a file after this instance's
\* last successful read of it, the next write or edit of that path fails
\* with Stale (times recorded and compared in whole seconds).
C3_StaleAfterExternalChange ==
    (last.op \in {"write", "edit"} /\ last.mark = "modified") =>
        last.err = ErrStale

\* the gate of write on the valid path vp, w being what the call returns
c4Gate(d, ts, vp, w) ==
    IF Stat(d, vp).kind = "none" THEN w.err = ""
    ELSE /\ (w.err = "") <=>
               (vp \in DOMAIN ts /\ Unix(Stat(d, vp).mtime) <= ts[vp])
         /\ vp \notin DOMAIN ts => w.err = ErrNotTracked
         /\ (vp \in DOMAIN ts /\ Unix(Stat(d, vp).mtime) > ts[vp]) =>
               w.err = ErrStale
         /\ w.err # "" => (w.disk = d /\ w.ts = ts)

\* C4: in every state, a write to an existing file succeeds only if the
\* path has a timestamp and the file's modification time (in seconds) is
\* not greater; it fails with NotTracked without a timestamp and with Stale
\* with a greater time, leaving the file and the table alone; a write to a
\* path that does not exist succeeds whatever the table holds.
C4_WriteGate ==
    \A p \in PathArgs, c \in Texts :
        validatePath(RootDirectory, cwd, p).ok =>
            c4Gate(disk, readTimestamps, ValidPath(p),
                   writeProjectFile(disk, readTimestamps, cwd, clock, p, c))

\* a write has been refused because the file changed in a later second
C4_Witness ==
    /\ last.op = "write"
    /\ last.err = ErrStale
    /\ last.file = <<>>

(***************************************************************************)
(* SpecFiles: the objects a tree can hold (large, binary, links,           *)
(* directories) at one instant.                                            *)
(***************************************************************************)
InitFiles ==
    /\ InitServer
    /\ NoProbe
    /\ \E f \in {NoObj} \cup {FileObj(c, 0) : c \in ExtTexts \cup {Big}} :
          disk = StartDisk(f)

NextFiles ==
    \/ \E p \in PathArgs : Read(p, 0, -1)
    \/ \E p \in PathArgs, c \in Texts : Write(p, c)
    \/ \E p \in PathArgs : Edit(p, <<"a">>, <<"b">>)
    \/ \E p \in InsidePaths : ExtDelete(p)
    \/ ExtSymlink(PathL)

SpecFiles == InitFiles /\ [][NextFiles]_vars

\* C1: no successful call has acted on a file outside the root, and the
\* file outside the root is as it was.
C1_NoEscape ==
    /\ Lookup(disk, PathO) = FileObj(Secret, 0)
    /\ (last.op \in ToolOps /\ last.err = "") =>
           InsideRoot(last.file, RootDirectory)

\* does the read r return exactly the text c
readBack(c, r) == r.err = "" /\ r.content = c

\* C7 as stated: after a successful write(p, c), a read of p with the
\* default line_offset and count returns exactly c, for every text c.
C7_RoundTrip ==
    (last.op = "write" /\ last.err = "") =>
        readBack(last.content,
                 readProjectFile(disk, readTimestamps, cwd, last.path, 0, -1))

\* C7 amended: the same for every text c of at most maxFileSize bytes.
C7_RoundTripWithinLimit ==
    (last.op = "write" /\ last.err = "" /\ Size(last.content) <= maxFileSize) =>
        readBack(last.content,
                 readProjectFile(disk, readTimestamps, cwd, last.path, 0, -1))

\* a file that had been read has just been overwritten
C7_Witness ==
    /\ last.op = "write"
    /\ last.err = ""
    /\ last.mark = "clean"
    /\ last.content = <<"a">>
    /\ Stat(disk, PathF).content = <<"a">>

(***************************************************************************)
(* SpecPath: validatePath on every short path, for several roots and       *)
(* working directories (-fs-root and -workdir of cmd/dizi/main.go).        *)
(***************************************************************************)
\* the longest path argument
MaxPathLen == 5

PathChars == {"/", ".", "r", "s"}
PathRoots == { <<"/", "r">>, <<"/">> }
PathCwds == { <<"/", "r">>, <<"/">>, <<"/", "r", "/", "s">> }

\* the server is idle and its tree plays no part
Idle ==
    /\ InitServer
    /\ disk = StartDisk(NoObj)

stateVars == <<cwd, disk, readTimestamps, clock, sinceRead, last,
              gitIgnoreCache, calls>>

InitPath ==
    /\ Idle
    /\ in \in [root : PathRoots, wd : PathCwds,
               path : SeqsUpTo(PathChars, MaxPathLen)]
    /\ out = <<>>

ValidatePathCall ==
    /\ out = <<>>
    /\ out' = <<validatePath(in.root, in.wd, in.path)>>
    /\ UNCHANGED <<stateVars, in>>

NextPath == ValidatePathCall

SpecPath == InitPath /\ [][NextPath]_vars

\* is the sequence a the beginning of the sequence b
IsPrefixSeq(a, b) == Len(a) <= Len(b) /\ SubSeq(b, 1, Len(a)) = a

\* the directory names of an absolute path, outermost first
Elems(p) == CleanElems(Split(p, Separator), TRUE, <<>>)

\* the claim's test on the normalized absolute form of the argument
c2Verdict(r, abs, rootAbs) ==
    /\ r.ok <=> (abs = rootAbs \/ HasPrefix(abs, rootAbs \o <<Separator>>))
    /\ ~r.ok => r.err = ErrSandbox /\ r.path = <<>>
    /\ r.ok => r.path = abs /\ IsAbs(r.path)
    /\ rootAbs # <<Separator>> =>
          (r.ok <=> IsPrefixSeq(Elems(rootAbs), Elems(abs)))

\* C2: validatePath rejects, with the sandbox error, every path whose
\* normalized absolute form is neither the root nor begins with the root
\* followed by a separator, and accepts every other path, returning that
\* absolute form; for a root other than "/" the accepted paths are those
\* whose directory names begin with the root's.
C2_ValidateContainment ==
    Len(out) = 1 =>
        c2Verdict(out[1], Abs(in.wd, in.path), Abs(in.wd, in.root))

\* a sibling whose name extends the root's name has been rejected
C2_Witness ==
    /\ Len(out) = 1
    /\ in.root = <<"/", "r">>
    /\ in.path = <<"/", "r", "s">>
    /\ ~out[1].ok

\* where the claim puts the relative path r: root/r, normalized
underRoot(root, r) == Clean(root \o <<Separator>> \o r)

c5Verdict(res, root, expected) ==
    (expected = root \/ HasPrefix(expected, root \o <<Separator>>)) =>
        res.ok /\ res.path = expected

\* C5: for every relative path r that stays inside the root after
\* normalization, validatePath returns root/r whatever the working
\* directory is.
C5_RelativeToRoot ==
    (Len(out) = 1 /\ ~IsAbs(in.path)) =>
        c5Verdict(out[1], in.root, underRoot(in.root, in.path))

(***************************************************************************)
(* SpecEdit: one edit call on a file this instance has just read, for      *)
(* every short content and old string.                                     *)
(***************************************************************************)
\* the longest file content
MaxEditLen == 3
\* the longest old_string
MaxOldLen == 2

EditChars == {"a", "b"}

JustRead == [op |-> "read", err |-> "", path |-> PathF, content |-> <<>>,
             file |-> PathF, mark |-> "unread"]

\* the state after a successful read of /r/f holding the given content
AfterRead(content) ==
    /\ cwd = RootDirectory
    /\ clock = 0
    /\ disk = StartDisk(FileObj(content, 0))
    /\ readTimestamps = (PathF :> 0)
    /\ sinceRead = [p \in DiskPaths |-> IF p = PathF THEN "clean" ELSE "unread"]
    /\ last = JustRead
    /\ gitIgnoreCache = <<>>
    /\ calls = <<>>

InitEdit ==
    /\ in \in [content : SeqsUpTo(EditChars, MaxEditLen),
               old : SeqsUpTo(EditChars, MaxOldLen),
               new : {<<>>, <<"c">>}]
    /\ out = <<>>
    /\ AfterRead(in.content)

EditCall ==
    /\ last = JustRead
    /\ Edit(PathF, in.old, in.new)

NextEdit == EditCall

SpecEdit == InitEdit /\ [][NextEdit]_vars

\* the positions at which old occurs in s, overlapping ones included
Occurrences(s, old) == {i \in 0..Len(s) : OccursAt(s, old, i)}

\* C6: on a freshly read file, edit fails with AmbiguousEdit when old
\* occurs 0 times or 2 or more times in the content (the empty string and
\* overlapping occurrences included), and when old occurs exactly once the
\* content becomes the old content with that occurrence replaced by new.
C6_UniqueEdit ==
    last.op = "edit" =>
        IF Cardinality(Occurrences(in.content, in.old)) = 1
        THEN /\ last.err = ""
             /\ \E i \in Occurrences(in.content, in.old) :
                   disk[PathF].content =
                       SubSeq(in.content, 1, i) \o in.new
                           \o From(in.content, i + Len(in.old))
        ELSE /\ last.err \in {ErrNotFound, ErrAmbiguous}
             /\ disk[PathF].content = in.content

(***************************************************************************)
(* SpecRead: one read_project_file call on a file, for every short         *)
(* content, line_offset and count, given or omitted.                       *)
(***************************************************************************)
\* the longest file content
MaxReadLen == 4
\* the largest line_offset and count
MaxLineArg == 3

ReadChars == {"a", NewLine}
LineArgs == (0 - 1)..MaxLineArg

\* the maps holding none, one or both of the optional arguments
ReadArguments ==
    UNION {[names -> LineArgs] : names \in SUBSET {"line_offset", "count"}}

InitRead ==
    /\ InitServer
    /\ in \in [content : SeqsUpTo(ReadChars, MaxReadLen), arguments : ReadArguments]
    /\ out = <<>>
    /\ disk = StartDisk(FileObj(in.content, 0))

\* the effect of the call that returned r
HandleReadReturns(r) ==
    /\ out' = <<r>>
    /\ readTimestamps' = r.ts
    /\ last' = [JustRead EXCEPT !.err = r.err]
    /\ UNCHANGED <<cwd, disk, clock, sinceRead, in, gitIgnoreCache, calls>>

HandleReadCall ==
    /\ out = <<>>
    /\ HandleReadReturns(handleReadProjectFile(disk, readTimestamps, cwd, PathF,
                                               in.arguments))

NextRead == HandleReadCall

SpecRead == InitRead /\ [][NextRead]_vars

\* C8: no call ends in a hard fault, whatever the values of its arguments.
C8_NoHardFault == Len(out) = 1 => out[1].err # Panic

\* the lines [lo, hi) of the content, rejoined
linesOf(content, lo, hi) ==
    Join(SubSeq(Split(content, NewLine), lo + 1, hi), NewLine)

\* what C10 says the call returns
c10Expected(content, arguments, lo, n) ==
    IF lo >= n THEN <<>>
    ELSE IF "count" \in DOMAIN arguments
         THEN linesOf(content, lo, Min(lo + arguments["count"], n))
         ELSE linesOf(content, lo, n)

\* C10: with n lines, line_offset >= 0 and a given count >= 0, read returns
\* the empty string when line_offset >= n and otherwise the lines
\* [line_offset, min(line_offset + count, n)); without count, the lines from
\* line_offset to the end.
C10_LineSlice ==
    (/\ Len(out) = 1
     /\ argOr(in.arguments, "line_offset", 0) >= 0
     /\ argOr(in.arguments, "count", 0) >= 0) =>
        /\ out[1].err = ""
        /\ out[1].content =
              c10Expected(in.content, in.arguments,
                          argOr(in.arguments, "line_offset", 0),
                          Len(Split(in.content, NewLine)))

(***************************************************************************)
(* SpecGrep: one grep call on a tree of two files, for every short         *)
(* content and every max_results.                                          *)
(***************************************************************************)
\* the longest file content
MaxGrepLen == 3
\* the largest max_results
MaxResults == 2

GrepChars == {"t", NewLine}

InitGrep ==
    /\ InitServer
    /\ in \in [f : SeqsUpTo(GrepChars, MaxGrepLen),
               l : SeqsUpTo(GrepChars, MaxGrepLen),
               maxResults : (0 - 1)..MaxResults]
    /\ out = <<>>
    /\ disk = [StartDisk(FileObj(in.f, 0)) EXCEPT ![PathL] = FileObj(in.l, 0)]

\* the effect of a grep call that returned r
GrepReturns(r) ==
    /\ out' = <<r>>
    /\ gitIgnoreCache' = r.cache
    /\ UNCHANGED <<cwd, disk, readTimestamps, clock, sinceRead, last, in, calls>>

GrepCall ==
    /\ out = <<>>
    /\ GrepReturns(grepProjectFiles(disk, gitIgnoreCache, <<"T">>, <<>>, FALSE,
                                    in.maxResults))

NextGrep == GrepCall

SpecGrep == InitGrep /\ [][NextGrep]_vars

\* C9: for max_results >= 1, grep returns at most max_results results, and
\* no line is tested once max_results results have been collected.
C9_GrepBounded ==
    (Len(out) = 1 /\ in.maxResults >= 1) =>
        /\ Len(out[1].results) <= in.maxResults
        /\ \A i \in 1..Len(out[1].tested) : out[1].tested[i] < in.maxResults

(***************************************************************************)
(* Spec, continued: the gate of edit and the timestamps after a change     *)
(***************************************************************************)
\* (old_string, new_string) of an edit call, the empty strings included
EditArgs == EditPairs \cup { <<(<<>>), (<<>>)>>, <<(<<>>), (<<"b">>)>> }

\* edit returned e on the valid path vp; tracked says whether the path
\* counts as read
c11Gate(d, vp, tracked, e) ==
    /\ Stat(d, vp).kind = "none" => (e.err # "" /\ e.disk = d)
    /\ (Stat(d, vp).kind # "none" /\ ~tracked) => e.err = ErrNotTracked

\* C11 as stated: edit on a path that does not exist fails and creates no
\* file, and edit on an existing file that this instance has never
\* successfully read fails with NotTracked, whatever old and new are.
C11_EditNeverRead ==
    \A p \in PathArgs, e \in EditArgs :
        validatePath(RootDirectory, cwd, p).ok =>
            c11Gate(disk, ValidPath(p), sinceRead[ValidPath(p)] # "unread",
                    editProjectFile(disk, readTimestamps, cwd, clock, p, e[1], e[2]))

\* C11 amended: edit on a path that does not exist fails and creates no
\* file, and edit on an existing file whose path has no entry in the table
\* (neither read nor written by this instance) fails with NotTracked.
C11_EditNoEntry ==
    \A p \in PathArgs, e \in EditArgs :
        validatePath(RootDirectory, cwd, p).ok =>
            c11Gate(disk, ValidPath(p), ValidPath(p) \in DOMAIN readTimestamps,
                    editProjectFile(disk, readTimestamps, cwd, clock, p, e[1], e[2]))

\* an edit of an existing file without an entry has been refused
C11_Witness ==
    /\ last.op = "edit"
    /\ last.err = ErrNotTracked
    /\ Stat(disk, PathF).kind = "file"
    /\ PathF \notin DOMAIN readTimestamps

\* a failed edit e leaves the tree d and the table ts as they were
c18Frame(d, ts, e) == e.err # "" => (e.disk = d /\ e.ts = ts)

\* C18: when edit fails for any reason (path rejected, file missing,
\* NotTracked, Stale, old string found 0 times or more than once), the
\* file's content and modification time and the table are unchanged.
C18_FailedEditFrame ==
    \A p \in PathArgs, e \in EditArgs :
        c18Frame(disk, readTimestamps,
                 editProjectFile(disk, readTimestamps, cwd, clock, p, e[1], e[2]))

\* an edit has failed on a file that passed the gate, a second or more
\* after the file was last written
C18_Witness ==
    /\ last.op = "edit"
    /\ last.err = ErrNotFound
    /\ Unix(clock) > Unix(Stat(disk, PathF).mtime)

\* the entry of vp is the modification time of its file and both gates pass
c19Fresh(d, ts, vp) ==
    /\ vp \in DOMAIN ts
    /\ ts[vp] = Unix(Stat(d, vp).mtime)
    /\ checkStale(d, ts, vp, TRUE) = ""
    /\ checkStale(d, ts, vp, FALSE) = ""

\* C19: after a successful write or edit of p, and until an external actor
\* steps in, the entry of p equals the file's modification time, so that a
\* following write or edit passes the staleness gate without a read; also
\* for a path created by write and never read.
C19_FreshAfterChange ==
    (last.op \in {"write", "edit"} /\ last.err = "") =>
        /\ c19Fresh(disk, readTimestamps, ValidPath(last.path))
        /\ writeProjectFile(disk, readTimestamps, cwd, clock, last.path,
                            <<"a">>).err = ""
        /\ editProjectFile(disk, readTimestamps, cwd, clock, last.path,
                           <<>>, <<>>).err \in {"", ErrAmbiguous}

\* a file has been created by write without ever being read
C19_Witness ==
    /\ last.op = "write"
    /\ last.err = ""
    /\ last.file = PathF
    /\ sinceRead[PathF] = "unread"

(***************************************************************************)
(* SpecFiles, continued: rejected paths and failed reads                   *)
(***************************************************************************)
\* the path argument p leads out of the root: the directory names of its
\* absolute form do not begin with the root's
c16Outside(wd, p) == ~IsPrefixSeq(Elems(RootDirectory), Elems(Abs(wd, p)))

\* a tree holding nothing
NoDisk == [p \in DiskPaths |-> NoObj]

\* the calls returned the sandbox error and nothing else; rd0, wr0 and ed0
\* are what the same calls return on the empty tree
c16Rejected(d, ts, rd, wr, ed, rd0, wr0, ed0) ==
    /\ rd.err = ErrSandbox /\ rd.ts = ts /\ rd = rd0
    /\ wr.err = ErrSandbox /\ wr.disk = d /\ wr.ts = ts /\ wr.err = wr0.err
    /\ ed.err = ErrSandbox /\ ed.disk = d /\ ed.ts = ts /\ ed.err = ed0.err
    /\ wr0.disk = NoDisk /\ ed0.disk = NoDisk

\* C16: when the path argument of read, write or edit leads out of the
\* root, the operation returns the sandbox error, the tree and the table
\* are unchanged, and what it returns does not depend on what the tree
\* holds (nothing is stat-ed or read).
C16_RejectedBeforeAccess ==
    \A p \in PathArgs :
        c16Outside(cwd, p) =>
            c16Rejected(disk, readTimestamps,
                readProjectFile(disk, readTimestamps, cwd, p, 0, 0 - 1),
                writeProjectFile(disk, readTimestamps, cwd, clock, p, <<"a">>),
                editProjectFile(disk, readTimestamps, cwd, clock, p, <<"s">>, <<"b">>),
                readProjectFile(NoDisk, readTimestamps, cwd, p, 0, 0 - 1),
                writeProjectFile(NoDisk, readTimestamps, cwd, clock, p, <<"a">>),
                editProjectFile(NoDisk, readTimestamps, cwd, clock, p, <<"s">>, <<"b">>))

\* a call on a path leaving the root through ".." has been rejected
C16_Witness ==
    /\ last.op \in ToolOps
    /\ last.path = Traversal
    /\ last.err = ErrSandbox

\* (line_offset, count) of the read calls: the defaults, a tail, a head, an
\* empty slice past the end, and a negative offset
SliceArgs == { <<0, 0 - 1>>, <<1, 0 - 1>>, <<0, 1>>, <<2, 1>>, <<0 - 1, 1>> }

\* the read returned r for the file stat at the valid path vp; a call that
\* panics returns nothing
c17Read(ts, vp, stat, r) ==
    /\ (\/ stat.kind = "none"
        \/ Size(stat.content) > maxFileSize
        \/ stat.kind # "file"
        \/ ~Utf8Valid(stat.content)) => r.err \notin {"", Panic}
    /\ r.err \notin {"", Panic} => r.ts = ts
    /\ r.err = "" =>
          /\ r.ts[vp] = Unix(stat.mtime)
          /\ DOMAIN r.ts = DOMAIN ts \cup {vp}
          /\ \A q \in DOMAIN ts \ {vp} : r.ts[q] = ts[q]

c17Call(ts, v, d, r) ==
    IF v.ok THEN c17Read(ts, v.path, Stat(d, v.path), r)
    ELSE r.err # "" /\ r.ts = ts

MaxLineLen == 202

\* a line of n matching characters
Run(n) == [i \in 1..n |-> "t"]

InitLine ==
    /\ InitServer
    /\ in \in {[f |-> lead \o Run(n), l |-> <<>>, maxResults |-> MaxResults] :
                  lead \in {<<>>, <<NewLine>>}, n \in 0..MaxLineLen}
    /\ out = <<>>
    /\ disk = [StartDisk(FileObj(in.f, 0)) EXCEPT ![PathL] = FileObj(in.l, 0)]

NextLine == GrepCall

SpecLine == InitLine /\ [][NextLine]_vars

\* the result r reports line number r.line of the lines, cut to 200
c15Result(lines, r) ==
    /\ r.line \in 1..Len(lines)
    /\ lineMatches(lines[r.line], <<"T">>, FALSE)
    /\ Len(r.content) <= 200
    /\ r.content = IF Len(lines[r.line]) > 200
                   THEN SubSeq(lines[r.line], 1, 200)
                   ELSE lines[r.line]

\* C15: every result of grep has a content of at most 200 characters, the
\* matching line cut to 200 when longer and unchanged otherwise, and its
\* line is the 1-based index of the matching line in the file.
C15_ContentAtMost200 ==
    Len(out) = 1 =>
        \A i \in 1..Len(out[1].results) :
            c15Result(Split(in.f, NewLine), out[1].results[i])

(***************************************************************************)
(* SpecTree: one list or grep call on a tree with directories and an       *)
(* ignore file, for several globs.                                         *)
(***************************************************************************)
\* max_results when the argument is omitted
DefaultMaxResults == 100

FileA == <<"a", ".", "t", "x", "t">>
FileOut == <<"b", "u", "i", "l", "d", "/", "o", "u", "t", ".", "b", "i", "n">>
FileMain == <<"m", "a", "i", "n", ".", "g", "o">>
FileMainTest == <<"m", "a", "i", "n", "_", "t", "e", "s", "t", ".", "g", "o">>
FileUtils == <<"s", "r", "c", "/", "u", "t", "i", "l", "s", ".", "g", "o">>
NameGitignore == <<".", "g", "i", "t", "i", "g", "n", "o", "r", "e">>

TreeFiles == {FileA, FileOut, FileMain, FileMainTest, FileUtils}

\* the lines of the ignore file
IgnoreBuild == <<"b", "u", "i", "l", "d", "/">>
IgnoreTests == <<"*", "_", "t", "e", "s", "t", ".", "g", "o">>

GlobAllGo == <<"*", "*", "/", "*", ".", "g", "o">>
GlobGo == <<"*", ".", "g", "o">>
GlobBuild == <<"b", "u", "i", "l", "d", "/", "*", "*">>

\* the glob arguments; the empty one is the omitted argument
Globs == {<<>>, GlobAllGo, GlobGo, GlobBuild}

\* the path of a file of the tree
Under(rel) == RootDirectory \o <<Separator>> \o rel

\* the tree holding the files and, when ignore is not empty, an ignore file
\* with ignore[1] as content
TreeDisk(files, ignore) ==
    [p \in {RootDirectory, GitignorePath} \cup {Under(f) : f \in files} |->
        IF p = RootDirectory THEN DirObj
        ELSE IF p = GitignorePath
             THEN IF Len(ignore) = 0 THEN NoObj ELSE FileObj(ignore[1], 0)
        ELSE FileObj(<<"t">>, 0)]

InitTree ==
    /\ InitServer
    /\ in \in [files : SUBSET TreeFiles,
               ignore : {<<>>, <<IgnoreBuild>>, <<IgnoreTests>>},
               glob : Globs,
               includeIgnored : BOOLEAN]
    /\ out = <<>>
    /\ disk = TreeDisk(in.files, in.ignore)

\* the effect of a list call that returned r
ListReturns(r) ==
    /\ out' = <<r>>
    /\ gitIgnoreCache' = r.cache
    /\ UNCHANGED <<cwd, disk, readTimestamps, clock, sinceRead, last, in, calls>>

ListCall ==
    /\ out = <<>>
    /\ ListReturns(ListProjectFiles(disk, gitIgnoreCache, in.glob, in.includeIgnored))

GrepTreeCall ==
    /\ out = <<>>
    /\ GrepReturns(grepProjectFiles(disk, gitIgnoreCache, <<"t">>, in.glob, TRUE,
                                    DefaultMaxResults))

NextTree == ListCall \/ GrepTreeCall

SpecTree == InitTree /\ [][NextTree]_vars

\* the elements of a sequence
Range(seq) == {seq[i] : i \in 1..Len(seq)}

listed == Len(out) = 1 /\ "files" \in DOMAIN out[1]
grepped == Len(out) = 1 /\ "searched" \in DOMAIN out[1]

\* the root-relative paths of the files of the tree, the ignore file included
treePaths == in.files \cup (IF Len(in.ignore) = 0 THEN {} ELSE {NameGitignore})

\* the patterns of the tree's ignore file
treeIgnores ==
    IF Len(in.ignore) = 0 THEN <<>> ELSE compileLines(ScanLines(in.ignore[1]))

\* C12: grep with a glob searches every file the glob matches, also those
\* matching an ignore pattern, and does not load the ignore file; grep
\* without a glob searches no file that matches an ignore pattern of the
\* root, and every other file.
C12_GrepGlobOverridesIgnore ==
    grepped =>
        /\ Range(out[1].searched) =
              IF Len(in.glob) > 0
              THEN {f \in treePaths : GlobMatch(in.glob, f)}
              ELSE {f \in treePaths : ~ignored(f, treeIgnores)}
        /\ Len(in.glob) > 0 => gitIgnoreCache = <<>>

\* with the glob *.go an ignored test file has been searched, and without
\* a glob a tree with that file has been searched without it
C12_Witness ==
    /\ grepped
    /\ in.ignore = <<IgnoreTests>>
    /\ in.glob = GlobGo
    /\ FileMainTest \in Range(out[1].searched)

c13Tree ==
    /\ listed
    /\ in.files = {FileA, FileOut}
    /\ in.ignore = <<IgnoreBuild>>
    /\ in.glob = <<>>

\* C13 as stated: with a.txt, build/out.bin and an ignore file holding
\* build/, list with default arguments returns exactly a.txt, and with
\* include_ignored it returns a.txt and build/out.bin.
C13_ListExample ==
    c13Tree =>
        IF in.includeIgnored
        THEN {FileA, FileOut} \subseteq Range(out[1].files)
        ELSE out[1].files = <<FileA>>

\* C13 amended: the ignore file is a file of the root and is listed too.
C13_ListExampleWithIgnoreFile ==
    c13Tree =>
        out[1].files = IF in.includeIgnored
                       THEN <<NameGitignore, FileA, FileOut>>
                       ELSE <<NameGitignore, FileA>>

\* the example's tree has been listed with default arguments
C13_Witness == c13Tree /\ ~in.includeIgnored

\* the claim's reading of "matches glob"
c14Matches(f, g) ==
    IF ~Contains(g, StarStarSlash) /\ ~Contains(g, <<Separator>>)
    THEN GlobMatch(g, f) /\ ~Contains(f, <<Separator>>)
    ELSE GlobMatch(g, f) \/ (HasPrefix(g, StarStarSlash) /\ GlobMatch(From(g, 3), f))

c14Example ==
    (/\ in.files = {FileMain, FileMainTest, FileUtils}
     /\ in.ignore = <<IgnoreTests>>
     /\ ~in.includeIgnored) =>
        /\ in.glob = GlobAllGo => out[1].files = <<FileMain, FileUtils>>
        /\ in.glob = GlobGo => out[1].files = <<FileMain>>

Procs == {1, 2}

\* how many calls each caller makes
MaxCalls == 2

\* the file the calls work on: two substrings, each of them unique
RaceText == <<"a", "c">>
RaceEdits == { <<(<<"a">>), (<<"b">>)>>, <<(<<"c">>), (<<"d">>)>> }

\* the ignore file of the root, when there is one
RaceIgnore == <<"l">>

\* a call: the operation and its arguments, the position reached in the
\* handler, the handler's local variables (validPath, the modification
\* time of stat, the content read or to be written, the patterns) and error,
\* and the number of the call
NoRequest ==
    [op |-> None, pc |-> "idle", arg |-> <<>>, old |-> <<>>, new |-> <<>>,
     validPath |-> <<>>, modTime |-> 0, content |-> <<>>, patterns |-> <<>>,
     err |-> "", n |-> 0, wroteAt |-> 0]

\* the calls a caller can make
Requests ==
    {[NoRequest EXCEPT !.op = "read", !.pc = "start", !.arg = PathF]}
    \cup {[NoRequest EXCEPT !.op = "write", !.pc = "start", !.arg = PathF,
                       !.content = <<"x">>]}
    \cup {[NoRequest EXCEPT !.op = "edit", !.pc = "start", !.arg = PathF,
                       !.old = e[1], !.new = e[2]] : e \in RaceEdits}
    \cup {[NoRequest EXCEPT !.op = op, !.pc = "start"] : op \in {"list", "grep"}}

\* the call of caller p moves on to c, everything outside of the calls
\* staying as it is
Moves(p, c) ==
    /\ calls' = [calls EXCEPT ![p] = c]
    /\ UNCHANGED <<cwd, disk, readTimestamps, clock, sinceRead, last, in, out,
                   gitIgnoreCache>>

Fails(c, err) == [c EXCEPT !.pc = "done", !.err = err]

\* a request arrives and its handler starts
Invoke(p, request) ==
    /\ calls[p].pc = "idle"
    /\ calls[p].n < MaxCalls
    /\ Moves(p, [request EXCEPT !.n = calls[p].n + 1])

\* the handler returns and the caller may send the next request
Return(p) ==
    /\ calls[p].pc = "done"
    /\ Moves(p, [NoRequest EXCEPT !.n = calls[p].n])

\* lines 1296-1313: validatePath, os.Stat and the checks on stat
readChecked(c, v, stat) ==
    IF ~v.ok THEN Fails(c, v.err)
    ELSE IF stat.kind = "none" THEN Fails(c, ErrNotExist)
    ELSE IF Size(stat.content) > maxFileSize THEN Fails(c, ErrTooLarge)
    ELSE IF stat.kind # "file" THEN Fails(c, ErrNotRegular)
    ELSE [c EXCEPT !.pc = "readFile", !.validPath = v.path,
                   !.modTime = stat.mtime]

ReadStat(p) ==
    /\ calls[p].pc = "start"
    /\ calls[p].op = "read"
    /\ Moves(p, readChecked(calls[p],
                            validatePath(RootDirectory, cwd, calls[p].arg),
                            Stat(disk, ValidPath(calls[p].arg))))

\* lines 1315-1323: os.ReadFile and utf8.Valid
readLoaded(c, stat) ==
    IF stat.kind # "file" THEN Fails(c, ErrRead)
    ELSE IF ~Utf8Valid(stat.content) THEN Fails(c, ErrNotUTF8)
    ELSE [c EXCEPT !.pc = "update", !.content = stat.content]

ReadContent(p) ==
    /\ calls[p].pc = "readFile"
    /\ calls[p].op = "read"
    /\ Moves(p, readLoaded(calls[p], Stat(disk, calls[p].validPath)))

\* lines 1350-1353, 1402-1405 and 1380-1386: validatePath, then os.Stat in
\* checkStale; write goes on without a file (allowNotFound)
staleChecked(c, v, stat) ==
    IF ~v.ok THEN Fails(c, v.err)
    ELSE IF stat.kind = "none"
         THEN IF c.op = "write"
              THEN [c EXCEPT !.pc = "writeFile", !.validPath = v.path]
              ELSE Fails(c, ErrNotExist)
    ELSE [c EXCEPT !.pc = "lookup", !.validPath = v.path,
                   !.modTime = stat.mtime]

CheckStaleStat(p) ==
    /\ calls[p].pc = "start"
    /\ calls[p].op \in {"write", "edit"}
    /\ Moves(p, staleChecked(calls[p],
                             validatePath(RootDirectory, cwd, calls[p].arg),
                             Stat(disk, ValidPath(calls[p].arg))))

\* line 1388: the lookup in the table starts; nothing holds it back
LookupBegin(p) ==
    /\ calls[p].pc = "lookup"
    /\ Moves(p, [calls[p] EXCEPT !.pc = "inLookup"])

\* lines 1388-1397: the lookup ends and gives the verdict
lookedUp(c, err) ==
    IF err # "" THEN Fails(c, err)
    ELSE [c EXCEPT !.pc = IF c.op = "write" THEN "writeFile" ELSE "readFile"]

LookupEnd(p) ==
    /\ calls[p].pc = "inLookup"
    /\ Moves(p, lookedUp(calls[p],
                         staleVerdict([mtime |-> calls[p].modTime],
                                      readTimestamps, calls[p].validPath)))

\* lines 1412-1429: os.ReadFile, the count of the matches, the replacement
editLoaded(c, stat) ==
    IF stat.kind # "file" THEN Fails(c, ErrRead)
    ELSE IF editString(stat.content, c.old, c.new).err # ""
         THEN Fails(c, editString(stat.content, c.old, c.new).err)
    ELSE [c EXCEPT !.pc = "writeFile",
                   !.content = editString(stat.content, c.old, c.new).content]

EditContent(p) ==
    /\ calls[p].pc = "readFile"
    /\ calls[p].op = "edit"
    /\ Moves(p, editLoaded(calls[p], Stat(disk, calls[p].validPath)))

\* lines 1366 and 1431: os.WriteFile opens the file with O_TRUNC, which
\* empties it, before it writes the content
WriteTruncate(p) ==
    /\ calls[p].pc = "writeFile"
    /\ IF Stat(disk, calls[p].validPath).kind = "dir"
       THEN /\ calls' = [calls EXCEPT ![p] = Fails(calls[p], ErrWrite)]
            /\ UNCHANGED disk
       ELSE /\ calls' = [calls EXCEPT ![p].pc = "writeData"]
            /\ disk' = WriteFile(disk, calls[p].validPath, <<>>, clock)
    /\ UNCHANGED <<cwd, readTimestamps, clock, sinceRead, last, in, out,
                   gitIgnoreCache>>

\* lines 1366-1368 and 1431-1433: os.WriteFile writes the content; wroteAt
\* keeps, as history, the time of this write
WriteContent(p) ==
    /\ calls[p].pc = "writeData"
    /\ calls' = [calls EXCEPT ![p].pc = "restat", ![p].wroteAt = clock]
    /\ disk' = WriteFile(disk, calls[p].validPath, calls[p].content, clock)
    /\ UNCHANGED <<cwd, readTimestamps, clock, sinceRead, last, in, out,
                   gitIgnoreCache>>

\* lines 1371 and 1436: os.Stat of the file just written; without a file
\* the table is left alone
restated(c, stat) ==
    IF stat.kind = "none" THEN [c EXCEPT !.pc = "done"]
    ELSE [c EXCEPT !.pc = "update", !.modTime = stat.mtime]

Restat(p) ==
    /\ calls[p].pc = "restat"
    /\ Moves(p, restated(calls[p], Stat(disk, calls[p].validPath)))

\* lines 1326, 1372 and 1437: the assignment to the table starts; nothing
\* holds it back
UpdateBegin(p) ==
    /\ calls[p].pc = "update"
    /\ Moves(p, [calls[p] EXCEPT !.pc = "inUpdate"])

\* the assignment ends: the entry holds the time the call has in stat
UpdateEnd(p) ==
    /\ calls[p].pc = "inUpdate"
    /\ readTimestamps' =
           (calls[p].validPath :> Unix(calls[p].modTime)) @@ readTimestamps
    /\ calls' = [calls EXCEPT ![p].pc = "done"]
    /\ UNCHANGED <<cwd, disk, clock, sinceRead, last, in, out, gitIgnoreCache>>

\* line 1225, reached from getIgnorePatterns (list without include_ignored)
\* and from setupGrepSearch (grep without a glob): the lookup in the cache
\* starts
CacheLookupBegin(p) ==
    /\ calls[p].pc = "start"
    /\ calls[p].op \in {"list", "grep"}
    /\ Moves(p, [calls[p] EXCEPT !.pc = "inCacheLookup"])

\* lines 1225-1227: the patterns of the cache are returned when it has them
CacheLookupEnd(p) ==
    /\ calls[p].pc = "inCacheLookup"
    /\ Moves(p, IF RootDirectory \in DOMAIN gitIgnoreCache
                THEN [calls[p] EXCEPT !.pc = "walk",
                                      !.patterns = gitIgnoreCache[RootDirectory]]
                ELSE [calls[p] EXCEPT !.pc = "open"])

\* lines 1229-1257: the ignore file is opened and scanned; without a file
\* the call goes on with no pattern and the cache is left alone
ignoreScanned(c, stat) ==
    IF stat.kind = "none" THEN [c EXCEPT !.pc = "walk"]
    ELSE [c EXCEPT !.pc = "cacheUpdate",
                   !.patterns = IF stat.kind = "file"
                                THEN compileLines(ScanLines(stat.content))
                                ELSE <<>>]

ScanIgnore(p) ==
    /\ calls[p].pc = "open"
    /\ Moves(p, ignoreScanned(calls[p], Stat(disk, GitignorePath)))

\* line 1260: the assignment to the cache starts; nothing holds it back
CacheUpdateBegin(p) ==
    /\ calls[p].pc = "cacheUpdate"
    /\ Moves(p, [calls[p] EXCEPT !.pc = "inCacheUpdate"])

\* the assignment ends
CacheUpdateEnd(p) ==
    /\ calls[p].pc = "inCacheUpdate"
    /\ gitIgnoreCache' = cached(calls[p].patterns, gitIgnoreCache).cache
    /\ calls' = [calls EXCEPT ![p].pc = "walk"]
    /\ UNCHANGED <<cwd, disk, readTimestamps, clock, sinceRead, last, in, out>>

\* lines 1123-1137 and 1471-1486: the walk with the patterns the call holds;
\* content is the list of the files named in the result
walked(c, d) ==
    IF c.op = "list"
    THEN walkList(d, WalkOrder, <<>>, c.patterns, FALSE)
    ELSE walkGrep(d, WalkOrder,
                  [pattern |-> <<"a">>, globPattern |-> <<>>,
                   caseSensitive |-> FALSE, maxResults |-> DefaultMaxResults,
                   ignorePatterns |-> c.patterns],
                  [results |-> <<>>, tested |-> <<>>, searched |-> <<>>]).searched

WalkFiles(p) ==
    /\ calls[p].pc = "walk"
    /\ Moves(p, [calls[p] EXCEPT !.pc = "done", !.content = walked(calls[p], disk)])

\* the accesses of the two maps in progress
inTable(p) == calls[p].pc \in {"inLookup", "inUpdate"}
inCache(p) == calls[p].pc \in {"inCacheLookup", "inCacheUpdate"}
updating(p) == calls[p].pc \in {"inUpdate", "inCacheUpdate"}

\* two accesses of one map at the same time, one of them an assignment
racing(p, q) ==
    /\ p # q
    /\ (inTable(p) /\ inTable(q)) \/ (inCache(p) /\ inCache(q))
    /\ updating(p) \/ updating(q)

\* a Go map is not safe for concurrent use: when the runtime notices the
\* two accesses it ends the process with "fatal error: concurrent map
\* writes" (or "concurrent map read and map write"); when it does not, the
\* accesses end in either order
Fatal ==
    /\ \E p, q \in Procs : racing(p, q)
    /\ calls' = [p \in Procs |-> [calls[p] EXCEPT !.pc = "fatal"]]
    /\ UNCHANGED <<cwd, disk, readTimestamps, clock, sinceRead, last, in, out,
                   gitIgnoreCache>>

\* the tree at start: the file under the root, with or without an ignore
\* file
RaceDisk(withIgnore) ==
    IF withIgnore
    THEN (GitignorePath :> FileObj(RaceIgnore, 0)) @@ StartDisk(FileObj(RaceText, 0))
    ELSE StartDisk(FileObj(RaceText, 0))

InitRace ==
    /\ cwd = RootDirectory
    /\ \E withIgnore \in BOOLEAN : disk = RaceDisk(withIgnore)
    /\ readTimestamps = <<>>
    /\ gitIgnoreCache = <<>>
    /\ clock = 0
    /\ sinceRead = [p \in DiskPaths |-> "unread"]
    /\ last = NoCall
    /\ NoProbe
    /\ calls = [p \in Procs |-> NoRequest]

NextRace ==
    \/ \E p \in Procs : \E request \in Requests : Invoke(p, request)
    \/ \E p \in Procs : Return(p)
    \/ \E p \in Procs : ReadStat(p)
    \/ \E p \in Procs : ReadContent(p)
    \/ \E p \in Procs : CheckStaleStat(p)
    \/ \E p \in Procs : LookupBegin(p)
    \/ \E p \in Procs : LookupEnd(p)
    \/ \E p \in Procs : EditContent(p)
    \/ \E p \in Procs : WriteTruncate(p)
    \/ \E p \in Procs : WriteContent(p)
    \/ \E p \in Procs : Restat(p)
    \/ \E p \in Procs : UpdateBegin(p)
    \/ \E p \in Procs : UpdateEnd(p)
    \/ \E p \in Procs : CacheLookupBegin(p)
    \/ \E p \in Procs : CacheLookupEnd(p)
    \/ \E p \in Procs : ScanIgnore(p)
    \/ \E p \in Procs : CacheUpdateBegin(p)
    \/ \E p \in Procs : CacheUpdateEnd(p)
    \/ \E p \in Procs : WalkFiles(p)
    \/ Fatal
    \/ Tick

SpecRace == InitRace /\ [][NextRace]_vars

\* C20: two calls in progress never access the table of read timestamps at
\* the same time when one of the accesses is an update, and never access
\* the cache of the ignore patterns at the same time when one of them is an
\* update.
C20_MutualExclusion == \A p, q \in Procs : ~racing(p, q)

\* caller p's call is an edit that returned success
editDone(p) ==
    /\ calls[p].op = "edit"
    /\ calls[p].pc = "done"
    /\ calls[p].err = ""

\* C21: when two edits of the freshly read file, replacing two different
\* substrings, have both returned success, the file holds both
\* replacements.
C21_NoLostEdit ==
    \A p, q \in Procs :
        (editDone(p) /\ editDone(q) /\ calls[p].old # calls[q].old) =>
            /\ Contains(Stat(disk, PathF).content, calls[p].new)
            /\ Contains(Stat(disk, PathF).content, calls[q].new)

\* caller p's call is a read that returned success
readDone(p) ==
    /\ calls[p].op = "read"
    /\ calls[p].pc = "done"
    /\ calls[p].err = ""

\* the contents the file has before, between and after the calls
RaceContents ==
    {RaceText, <<"x">>, <<"b", "c">>, <<"a", "d">>, <<"b", "d">>}

\* C23: a read that runs beside a write returns the complete content the
\* file had before the write or the complete content written, never an
\* empty one.
C23_AtomicWrite ==
    \A p, q \in Procs :
        (readDone(p) /\ calls[q].op = "write") =>
            calls[p].content \in RaceContents

(***************************************************************************)
(* SpecWindow: one caller, whose handler advances one system call at a     *)
(* time, beside an external editor of the file and the clock.              *)
(***************************************************************************)
Caller == 1

\* the calls on the file
FileRequests == {r \in Requests : r.op \in {"read", "write", "edit"}}

\* the server of InitServer with the file under its root and one caller
InitCaller ==
    /\ cwd = RootDirectory
    /\ disk = StartDisk(FileObj(RaceText, 0))
    /\ readTimestamps = <<>>
    /\ gitIgnoreCache = <<>>
    /\ clock = 0
    /\ sinceRead = [p \in DiskPaths |-> "unread"]
    /\ last = NoCall
    /\ NoProbe
    /\ calls = (Caller :> NoRequest)

NextWindow ==
    \/ \E request \in FileRequests : Invoke(Caller, request)
    \/ Return(Caller)
    \/ ReadStat(Caller)
    \/ ReadContent(Caller)
    \/ CheckStaleStat(Caller)
    \/ LookupBegin(Caller)
    \/ LookupEnd(Caller)
    \/ EditContent(Caller)
    \/ WriteTruncate(Caller)
    \/ WriteContent(Caller)
    \/ Restat(Caller)
    \/ UpdateBegin(Caller)
    \/ UpdateEnd(Caller)
    \/ \E content \in ExtTexts : ExtWrite(PathF, content)
    \/ Tick

SpecWindow == InitCaller /\ [][NextWindow]_vars

\* the caller's call is a write or an edit that returned success
changeDone ==
    /\ calls[Caller].op \in {"write", "edit"}
    /\ calls[Caller].pc = "done"
    /\ calls[Caller].err = ""

\* C24: when a write or an edit returns success, the entry of the path is
\* the modification time of the version the call itself wrote, whatever an
\* external editor did between the write-back and the refresh.
C24_OwnTimestamp ==
    changeDone =>
        readTimestamps[calls[Caller].validPath] = Unix(calls[Caller].wroteAt)

(***************************************************************************)
(* SpecShared: two callers of one server instance, one tool call after     *)
(* the other. The instance and its table are shared by all the callers.    *)
(***************************************************************************)
Callers == {"A", "B"}

\* what a caller knows of the file before its first read
Unread == <<"?">>

\* the contents the callers write
CallerTexts == { <<"x">>, <<"y">> }

\* history: who made the last call, the content the file had before it, the
\* content this caller knew then, for each caller the content it last read
\* or wrote, and the callers that have read the file
InitShared ==
    /\ cwd = RootDirectory
    /\ disk = StartDisk(FileObj(<<"a">>, 0))
    /\ readTimestamps = <<>>
    /\ gitIgnoreCache = <<>>
    /\ clock = 0
    /\ sinceRead = [p \in DiskPaths |-> "unread"]
    /\ last = NoCall
    /\ NoProbe
    /\ calls = [who |-> None, over |-> <<>>, knew |-> Unread,
                known |-> [c \in Callers |-> Unread], readers |-> {}]

learns(c, op, err, content) ==
    [who |-> c, over |-> Stat(disk, PathF).content, knew |-> calls.known[c],
     known |-> IF err = "" THEN [calls.known EXCEPT ![c] = content]
               ELSE calls.known,
     readers |-> IF err = "" /\ op = "read" THEN calls.readers \cup {c}
                 ELSE calls.readers]

CallerReadReturns(c, r) ==
    /\ readTimestamps' = r.ts
    /\ last' = [NoCall EXCEPT !.op = "read", !.err = r.err, !.path = PathF]
    /\ calls' = learns(c, "read", r.err, r.content)
    /\ UNCHANGED <<cwd, disk, clock, sinceRead, in, out, gitIgnoreCache>>

CallerRead(c) ==
    CallerReadReturns(c, readProjectFile(disk, readTimestamps, cwd, PathF, 0, 0))

CallerWriteReturns(c, content, r) ==
    /\ disk' = r.disk
    /\ readTimestamps' = r.ts
    /\ last' = [NoCall EXCEPT !.op = "write", !.err = r.err, !.path = PathF,
                              !.content = content]
    /\ calls' = learns(c, "write", r.err, content)
    /\ UNCHANGED <<cwd, clock, sinceRead, in, out, gitIgnoreCache>>

CallerWrite(c, content) ==
    CallerWriteReturns(c, content,
        writeProjectFile(disk, readTimestamps, cwd, clock, PathF, content))

NextShared ==
    \/ \E c \in Callers : CallerRead(c)
    \/ \E c \in Callers : \E content \in CallerTexts : CallerWrite(c, content)
    \/ Tick

SpecShared == InitShared /\ [][NextShared]_vars

\* C22: once both callers have read the file, a write by a caller made
\* when the file holds a content this caller has neither read nor written
\* fails.
C22_NoSilentOverwrite ==
    (/\ last.op = "write"
     /\ calls.readers = Callers
     /\ calls.over # calls.knew) => last.err # ""

(***************************************************************************)
(* Spec, continued: the life of a table entry                              *)
(***************************************************************************)
\* the path is Tracked, its file exists and is newer than the entry
stale(d, ts, vp) ==
    /\ vp \in DOMAIN ts
    /\ Stat(d, vp).kind # "none"
    /\ Unix(Stat(d, vp).mtime) > ts[vp]

readSucceeded(l) == l.op = "read" /\ l.err = ""

\* C25: from a state where the file is Stale, every step that keeps the
\* file and is not a successful read leaves it Stale, and a write or edit
\* call on its path fails with Stale and changes neither the tree nor the table; after
\* a successful read followed by no external modification, a write and an
\* edit pass the staleness check.
C25_StaleUntilRead ==
    /\ [][(/\ stale(disk, readTimestamps, PathF)
           /\ Stat(disk', PathF).kind # "none"
           /\ ~readSucceeded(last'))
          => /\ stale(disk', readTimestamps', PathF)
             /\ (last'.op \in {"write", "edit"} /\ ValidPath(last'.path) = PathF) =>
                    /\ last'.err = ErrStale
                    /\ disk' = disk
                    /\ readTimestamps' = readTimestamps]_vars
    /\ [](readSucceeded(last) =>
            /\ ~stale(disk, readTimestamps, PathF)
            /\ checkStale(disk, readTimestamps, ValidPath(last.path), TRUE) = ""
            /\ checkStale(disk, readTimestamps, ValidPath(last.path), FALSE) = "")

\* an edit has just been refused because the file is Stale
C25_Witness ==
    /\ last.op = "edit"
    /\ last.err = ErrStale
    /\ stale(disk, readTimestamps, PathF)

(***************************************************************************)
(* SpecFiles, continued: the entries of the table                          *)
(***************************************************************************)
\* C26: no step, of a call that succeeds or fails or of an external actor,
\* removes a path from the table of read timestamps.
C26_TableOnlyGrows ==
    [][DOMAIN readTimestamps \subseteq DOMAIN readTimestamps']_vars

\* the file of a tracked path was deleted, an edit of it has failed, and the
\* entry is still there
C26_Witness ==
    /\ PathF \in DOMAIN readTimestamps
    /\ Stat(disk, PathF).kind = "none"
    /\ last.op = "edit"
    /\ last.err = ErrNotExist

(***************************************************************************)
(* SpecCache: list and grep calls one after the other, beside an external  *)
(* actor that creates, changes and deletes the ignore file.                *)
(***************************************************************************)
CacheFiles == {FileA, FileOut, FileMainTest}

\* history: the ignore patterns of the first list or grep call that
\* computed them, <<>> before that call
InitCache ==
    /\ cwd = RootDirectory
    /\ \E ignore \in {<<>>, <<IgnoreBuild>>, <<IgnoreTests>>} :
           disk = TreeDisk(CacheFiles, ignore)
    /\ readTimestamps = <<>>
    /\ gitIgnoreCache = <<>>
    /\ clock = 0
    /\ sinceRead = [p \in DiskPaths |-> "unread"]
    /\ last = NoCall
    /\ NoProbe
    /\ calls = [computed |-> <<>>]

\* the call that loaded the patterns is remembered when it is the first
computes(loaded) ==
    [computed |-> IF calls.computed = <<>> THEN <<loaded.patterns>>
                  ELSE calls.computed]

Returns(r, history) ==
    /\ out' = <<r>>
    /\ gitIgnoreCache' = r.cache
    /\ calls' = history
    /\ UNCHANGED <<cwd, disk, readTimestamps, clock, sinceRead, last, in>>

\* list(): getIgnorePatterns loads the patterns
ListAgain ==
    Returns(ListProjectFiles(disk, gitIgnoreCache, <<>>, FALSE),
            computes(loadGitignorePatterns(disk, gitIgnoreCache)))

\* list(include_ignored=true): the patterns are not loaded
ListAllAgain ==
    Returns(ListProjectFiles(disk, gitIgnoreCache, <<>>, TRUE), calls)

\* grep without a glob: setupGrepSearch loads the patterns
GrepAgain ==
    Returns(grepProjectFiles(disk, gitIgnoreCache, <<"t">>, <<>>, TRUE,
                             DefaultMaxResults),
            computes(loadGitignorePatterns(disk, gitIgnoreCache)))

\* an external actor creates or rewrites the ignore file
ExtIgnore(line) ==
    /\ disk' = [disk EXCEPT ![GitignorePath] = FileObj(line, clock)]
    /\ UNCHANGED <<cwd, readTimestamps, clock, sinceRead, last, in, out,
                   gitIgnoreCache, calls>>

\* an external actor deletes the ignore file
ExtIgnoreDelete ==
    /\ disk[GitignorePath].kind # "none"
    /\ disk' = [disk EXCEPT ![GitignorePath] = NoObj]
    /\ UNCHANGED <<cwd, readTimestamps, clock, sinceRead, last, in, out,
                   gitIgnoreCache, calls>>

NextCache ==
    \/ ListAgain
    \/ ListAllAgain
    \/ GrepAgain
    \/ \E line \in {IgnoreBuild, IgnoreTests} : ExtIgnore(line)
    \/ ExtIgnoreDelete
    \/ Tick

SpecCache == InitCache /\ [][NextCache]_vars

\* the files of the tree that the patterns do not hide, the ignore file
\* aside
shown(patterns) == {f \in CacheFiles : ~ignored(f, patterns)}

\* the files a list call and a grep call made now would return and search
listsNow ==
    Range(ListProjectFiles(disk, gitIgnoreCache, <<>>, FALSE).files) \cap CacheFiles
grepsNow ==
    Range(grepProjectFiles(disk, gitIgnoreCache, <<"t">>, <<>>, TRUE,
                           DefaultMaxResults).searched) \cap CacheFiles

\* C27: once a list or grep call has computed the ignore patterns of the
\* root, with or without an ignore file, every later list and grep call
\* hides the files these patterns hide, whatever happens to the ignore file.
C27_ComputedOnce ==
    calls.computed # <<>> =>
        /\ listsNow = shown(calls.computed[1])
        /\ grepsNow = shown(calls.computed[1])

(***************************************************************************)
(* SpecIgnore: the translation of one line of the ignore file.             *)
(***************************************************************************)
MaxIgnoreLen == 4

IgnoreChars == {"!", "/", "#", "*", "n", " "}

InitIgnore ==
    /\ InitServer
    /\ disk = StartDisk(NoObj)
    /\ in \in SeqsUpTo(IgnoreChars, MaxIgnoreLen)
    /\ out = <<>>

\* lines 1241-1257 on a file of one line
TranslateLine ==
    /\ out = <<>>
    /\ out' = <<compileLines(<<in>>)>>
    /\ UNCHANGED <<cwd, disk, readTimestamps, clock, sinceRead, last, in,
                   gitIgnoreCache, calls>>

NextIgnore == TranslateLine

SpecIgnore == InitIgnore /\ [][NextIgnore]_vars

\* the alternation of two patterns
alternation(a, b) == <<"{">> \o a \o <<",">> \o b \o <<"}">>

\* the pattern the rules give for a line that is neither blank, a comment
\* nor a negation
c28Rule(line) ==
    IF HasPrefix(line, <<"/">>)
    THEN IF HasSuffix(Tail(line), <<"/">>) THEN Tail(line) \o StarStar
         ELSE Tail(line)
    ELSE IF HasSuffix(line, <<"/">>)
         THEN alternation(line \o StarStar, StarStarSlash \o line \o StarStar)
    ELSE IF Contains(line, StarStar) THEN line
    ELSE alternation(line, StarStarSlash \o line)

\* the patterns a line yields: none or one; an empty text is no pattern
c28Yield(line) ==
    IF \/ TrimSpace(line) = <<>>
       \/ HasPrefix(line, <<"#">>)
       \/ HasPrefix(line, <<"!">>)
       \/ c28Rule(line) = <<>>
    THEN <<>>
    ELSE <<c28Rule(line)>>

\* C28: each line of the file, taken without its leading and trailing white
\* space, yields what the first matching rule gives for it: nothing for a
\* blank line, a comment and a negation, the text after a leading separator
\* with ** appended when it ends with a separator, the alternation of
\* <line>** and **/<line>** for a final separator, the line itself when it
\* contains **, and otherwise the alternation of the line and **/<line>;
\* never more than one pattern.
C28_TrimmedLineRules == Len(out) = 1 => out[1] = c28Yield(TrimSpace(in))

\* a line that ends with a separator and contains ** was translated by the
\* rule of the final separator
C28_Witness ==
    /\ in = StarStarSlash
    /\ out = <<(<<alternation(StarStarSlash \o StarStar,
                              StarStarSlash \o StarStarSlash \o StarStar)>>)>>

(***************************************************************************)
(* SpecTree, continued: the glob of grep and the glob of the lister        *)
(***************************************************************************)
\* C29: with a glob, grep searches exactly the files that the lister
\* returns for the same glob with include_ignored.
C29_GrepGlobAsList ==
    (grepped /\ Len(in.glob) > 0) =>
        Range(out[1].searched) =
            Range(ListProjectFiles(disk, gitIgnoreCache, in.glob, TRUE).files)

(***************************************************************************)
(* SpecMatch: grep of a file of one line, for patterns that are plain,     *)
(* that hold the dot, and that do not compile.                             *)
(***************************************************************************)
MaxPatternLen == 2
MaxMatchLen == 3

PatternChars == {"T", "t", ".", "("}
MatchChars == {"T", "t", "("}

\* the example: pattern TODO, line // todo: fix
PatternTodo == <<"T", "O", "D", "O">>
LineTodo == <<"/", "/", " ", "t", "o", "d", "o", ":", " ", "f", "i", "x">>

InitMatch ==
    /\ InitServer
    /\ in \in [pattern : SeqsUpTo(PatternChars, MaxPatternLen),
               line : SeqsUpTo(MatchChars, MaxMatchLen) \ {<<>>},
               caseSensitive : BOOLEAN]
           \cup [pattern : {PatternTodo}, line : {LineTodo},
                 caseSensitive : BOOLEAN]
    /\ out = <<>>
    /\ disk = StartDisk(FileObj(in.line, 0))

GrepLineCall ==
    /\ out = <<>>
    /\ GrepReturns(grepProjectFiles(disk, gitIgnoreCache, in.pattern, <<>>,
                                    in.caseSensitive, DefaultMaxResults))

NextMatch == GrepLineCall

SpecMatch == InitMatch /\ [][NextMatch]_vars

\* the pattern holds letters only
plain(pattern) == \A i \in 1..Len(pattern) : pattern[i] \notin {".", "("}

\* the pattern is not a regular expression: a parenthesis is left open
invalid(pattern) == \E i \in 1..Len(pattern) : pattern[i] = "("

\* the line holds the pattern as a substring, letters compared without
\* their case unless caseSensitive
c30Holds(line, pattern, caseSensitive) ==
    \E i \in 0..(Len(line) - Len(pattern)) :
        \A k \in 1..Len(pattern) :
            \/ pattern[k] = line[i + k]
            \/ ~caseSensitive /\ {pattern[k], line[i + k]} \in
                   {{"T", "t"}, {"O", "o"}, {"D", "d"}}

\* C30: a pattern of letters matches a line that holds it, whatever the case
\* of the letters unless case_sensitive is true (TODO matches // todo: fix
\* by default and not with case_sensitive); a pattern that does not compile
\* gives no error: the file is searched and the line matches when it holds
\* the pattern as a substring under the same rule.
C30_CaseAndFallback ==
    grepped =>
        /\ out[1].searched = <<(<<"f">>)>>
        /\ (plain(in.pattern) \/ invalid(in.pattern)) =>
               (Len(out[1].results) = 1) =
                   c30Holds(in.line, in.pattern, in.caseSensitive)
        /\ in.pattern = PatternTodo =>
               (Len(out[1].results) = 1) = ~in.caseSensitive

\* a pattern that does not compile was found in a line, letters compared
\* without their case
C30_Witness ==
    /\ grepped
    /\ in.pattern = <<"(", "T">>
    /\ in.line = <<"t", "(", "t">>
    /\ ~in.caseSensitive
    /\ Len(out[1].results) = 1

=============================================================================
